---- MODULE Spec2Model ----
(***************************************************************************)
(* TestRail ingestion of auto_qa (utils/ingestion.py) over the catalog      *)
(* tables of test_case/models.py.                                           *)
(*                                                                          *)
(* Texts are sequences of one-character strings.  A Python dict is a        *)
(* sequence of <<key, value>> pairs in insertion order.  None is <<>> and   *)
(* a present value x is <<x>>.                                              *)
(***************************************************************************)
EXTENDS Integers, Sequences, FiniteSets, TLC

(***************************************************************************)
(* Bounds of the model.                                                     *)
(***************************************************************************)
\* invocations of ingest_test_rail
MaxRuns == 2
\* pages the remote listing answers with in one run
MaxPages == 2
\* cap of TestCaseCounter.last_id: a page never holds more cases than the
\* counter has room for
MaxLastId == 2
\* item lines of a field descriptor given to get_customers_platforms
MaxLines == 2
\* characters of a text given to sanitize_test_case_text
MaxTextLen == 4
\* comma-separated references of a remote case
MaxRefs == 11
\* contents that are put under the key of the bucket, one after the other
MaxVersions == 2
\* calls of get_next_id by each of the concurrent callers
MaxCalls == 3
\* rows of TestCaseHistory
MaxHistory == 3

(***************************************************************************)
(* Program constants.                                                       *)
(***************************************************************************)
\* ingestion.py:130 'limit': 250 and ingestion.py:137 offset += 250
PageLimit == 250
\* size of the tickets ArrayField, models.py:108
TicketsSize == 10

TEST_CASE_FIELDS == <<"custom_customers", "custom_platfroms">>

None == <<>>
Some(x) == <<x>>

(***************************************************************************)
(* str methods used by get_customers_platforms.                             *)
(***************************************************************************)
Whitespace == {" ", "\t", "\n"}
Digits == {"0", "1", "2", "3", "4", "5", "6", "7", "8", "9"}

DigitVal(c) ==
    CASE c = "0" -> 0 [] c = "1" -> 1 [] c = "2" -> 2 [] c = "3" -> 3
      [] c = "4" -> 4 [] c = "5" -> 5 [] c = "6" -> 6 [] c = "7" -> 7
      [] c = "8" -> 8 [] c = "9" -> 9

RECURSIVE LStrip(_)
LStrip(s) ==
    IF s # <<>> /\ Head(s) \in Whitespace THEN LStrip(Tail(s)) ELSE s

RECURSIVE RStrip(_)
RStrip(s) ==
    IF s # <<>> /\ s[Len(s)] \in Whitespace
    THEN RStrip(SubSeq(s, 1, Len(s) - 1))
    ELSE s

\* str.strip()
Strip(s) == RStrip(LStrip(s))

StartsWith(s, sep) ==
    Len(s) >= Len(sep) /\ SubSeq(s, 1, Len(sep)) = sep

\* str.split(sep) for a non-empty separator: always at least one part
RECURSIVE SplitFrom(_, _, _)
SplitFrom(s, sep, cur) ==
    IF s = <<>> THEN <<cur>>
    ELSE IF StartsWith(s, sep)
         THEN <<cur>> \o SplitFrom(SubSeq(s, Len(sep) + 1, Len(s)), sep, <<>>)
         ELSE SplitFrom(Tail(s), sep, Append(cur, Head(s)))

Split(s, sep) == SplitFrom(s, sep, <<>>)

\* int(s) raises ValueError unless s is, whitespace aside, an optionally
\* signed run of digits
Unsigned(s) ==
    IF s # <<>> /\ Head(s) \in {"+", "-"} THEN Tail(s) ELSE s

IntParses(s) ==
    LET t == Unsigned(Strip(s))
    IN  t # <<>> /\ \A i \in 1..Len(t) : t[i] \in Digits

RECURSIVE DecVal(_, _)
DecVal(t, acc) ==
    IF t = <<>> THEN acc ELSE DecVal(Tail(t), 10 * acc + DigitVal(Head(t)))

IntOf(s) ==
    LET t == Strip(s)
        v == DecVal(Unsigned(t), 0)
    IN  IF t # <<>> /\ Head(t) = "-" THEN 0 - v ELSE v

(***************************************************************************)
(* dict operations.                                                         *)
(***************************************************************************)
DictHas(d, k) == \E i \in 1..Len(d) : d[i][1] = k

\* d[k] = v : an existing key keeps its position
DictSet(d, k, v) ==
    IF DictHas(d, k)
    THEN [i \in 1..Len(d) |-> IF d[i][1] = k THEN <<k, v>> ELSE d[i]]
    ELSE Append(d, <<k, v>>)

\* d.get(k) : None when the key is missing
DictGet(d, k) ==
    IF DictHas(d, k)
    THEN Some((CHOOSE p \in {d[i] : i \in 1..Len(d)} : p[1] = k)[2])
    ELSE None

DictKeys(d) == {d[i][1] : i \in 1..Len(d)}

(***************************************************************************)
(* get_customers_platforms (ingestion.py:71-91).  A field descriptor is     *)
(* [system_name, configs]; configs is None or the list of the 'items'       *)
(* values of its configuration blocks, each None or a text.                 *)
(***************************************************************************)
RECURSIVE ParseItems(_, _)
ParseItems(lines, sub_dict) ==
    IF lines = <<>> THEN sub_dict
    ELSE LET parts == Split(Head(lines), <<",", " ">>)
         IN  IF IntParses(parts[1])
             THEN ParseItems(Tail(lines),
                             DictSet(sub_dict, IntOf(parts[1]),
                                     IF Len(parts) > 1 THEN Strip(parts[2]) ELSE <<>>))
             ELSE ParseItems(Tail(lines), sub_dict)

SubDictOf(res) ==
    IF res.configs # None /\ res.configs[1] # <<>>
    THEN LET items == res.configs[1][1]
         IN  IF items # None /\ items[1] # <<>>
             THEN ParseItems(Split(items[1], <<"\n">>), <<>>)
             ELSE <<>>
    ELSE <<>>

InTestCaseFields(system_name) ==
    \E i \in 1..Len(TEST_CASE_FIELDS) : TEST_CASE_FIELDS[i] = system_name

RECURSIVE ResolveFrom(_, _)
ResolveFrom(response, result) ==
    IF response = <<>> THEN result
    ELSE LET res == Head(response)
         IN  IF InTestCaseFields(res.system_name)
             THEN ResolveFrom(Tail(response),
                              DictSet(result, res.system_name, SubDictOf(res)))
             ELSE ResolveFrom(Tail(response), result)

get_customers_platforms(response) == ResolveFrom(response, <<>>)

(***************************************************************************)
(* What the remote service can answer.                                      *)
(***************************************************************************)
Field(name, text) ==
    [system_name |-> name, configs |-> Some(<<Some(text)>>)]

\* "2, b\n1, a"
Items_2b_1a == <<"2", ",", " ", "b", "\n", "1", ",", " ", "a">>
\* "2, c"
Items_2c == <<"2", ",", " ", "c">>
\* "1, a"
Items_1a == <<"1", ",", " ", "a">>
\* "abc\n2, b"
Items_abc_2b == <<"a", "b", "c", "\n", "2", ",", " ", "b">>

\* get_case_fields payloads
Payloads ==
    { <<>>,
      <<Field("custom_customers", Items_2b_1a), Field("custom_platfroms", Items_1a)>>,
      <<[system_name |-> "custom_steps", configs |-> None],
        Field("custom_customers", Items_2c)>>,
      <<Field("custom_platfroms", Items_abc_2b)>>,
      <<Field("custom_platfroms", Items_1a),
        [system_name |-> "custom_customers", configs |-> Some(<<None>>)]>> }

\* ids a case can list in custom_customers / custom_platfroms
IdSets == {{1}}

\* a JSON value of custom_customers / custom_platfroms: missing or null,
\* a list of ids, or a value that is no list (a non-zero number)
IdLists ==
    {[kind |-> "absent", ids |-> {}], [kind |-> "number", ids |-> {}]}
    \cup {[kind |-> "list", ids |-> s] : s \in IdSets}

\* a case of a get_cases page, by what import_test_cases_to_db reads of it:
\* refs is a string or a JSON value that is no string (a number); title is
\* a string or null
CaseInputs ==
    [refs : {"str", "number"},
     title : {"str", "null"},
     custom_customers : IdLists,
     custom_platfroms : IdLists]

(***************************************************************************)
(* State.                                                                   *)
(***************************************************************************)
VARIABLES
    pc,             \* position of the one ingest_test_rail invocation
    fetch_fields,   \* kwargs.get('fetch_fields')
    outcome,        \* "none", "returned" or "raised": how the last call ended
    logged,         \* exception logged at ingestion.py:34, or None
    offset,         \* get_test_cases: offset
    cases,          \* number of cases of the page being imported
    next_link,      \* response['_links']['next'] of that page is set
    idx,            \* import loop: 1-based position of the next case
    case,           \* import loop variable: the last case taken, or None
    customers,      \* get_case_fields: result.get('custom_customers')
    platforms,      \* get_case_fields: result.get('custom_platfroms')
    pos,            \* populate loops: position of the next entry
    testCaseTbl,    \* TestCase rows
    last_id,        \* TestCaseCounter row 1
    customerTbl,    \* TestCaseCustomer rows
    platformTbl,    \* TestCasePlatform rows
    customerSeq,    \* primary-key sequence of TestCaseCustomer
    platformSeq,    \* primary-key sequence of TestCasePlatform
    requests,       \* requests issued by the current call, in order
    outstanding,    \* requests issued and not yet answered
    pageLog,        \* pages received by the current call, in order
    startLastId,    \* last_id when the current call began
    runs,           \* calls of ingest_test_rail so far
    arg,            \* argument of the function called on its own, or None
    ret,            \* what that call returned or raised, or None before it
    proc,           \* concurrent runs or calls, by process
    s3,             \* the object stored under the key in the bucket, or None
    historyTbl      \* rows of TestCaseHistory

vars == <<pc, fetch_fields, outcome, logged, offset, cases, next_link, idx, case,
          customers, platforms, pos, testCaseTbl, last_id, customerTbl,
          platformTbl, customerSeq, platformSeq, requests, outstanding, pageLog,
          startLastId, runs, arg, ret, proc, s3, historyTbl>>

\* state of the checks of the pure functions and of the concurrent runs
aux == <<arg, ret, proc, s3, historyTbl>>

\* the bucket and the history table
storage == <<s3, historyTbl>>

\* state of the one sequential invocation and of the catalog
main == <<pc, fetch_fields, outcome, logged, offset, cases, next_link, idx, case,
          customers, platforms, pos, testCaseTbl, last_id, customerTbl,
          platformTbl, customerSeq, platformSeq, requests, outstanding, pageLog,
          startLastId, runs>>

locals == <<offset, cases, next_link, idx, case, customers, platforms, pos>>
tables == <<testCaseTbl, last_id, customerTbl, platformTbl, customerSeq, platformSeq>>
lookups == <<customerTbl, platformTbl, customerSeq, platformSeq>>

MainInit ==
    /\ pc = "idle"
    /\ fetch_fields = FALSE
    /\ outcome = "none"
    /\ logged = None
    /\ offset = 0
    /\ cases = 0
    /\ next_link = FALSE
    /\ idx = 1
    /\ case = None
    /\ customers = None
    /\ platforms = None
    /\ pos = 1
    /\ testCaseTbl = {}
    /\ last_id = 0
    /\ customerTbl = {}
    /\ platformTbl = {}
    /\ customerSeq = 0
    /\ platformSeq = 0
    /\ requests = <<>>
    /\ outstanding = 0
    /\ pageLog = <<>>
    /\ startLastId = 0
    /\ runs = 0
    /\ s3 = None
    /\ historyTbl = {}

Init ==
    /\ MainInit
    /\ arg = None
    /\ ret = None
    /\ proc = <<>>

(***************************************************************************)
(* Catalog tables (test_case/models.py).                                    *)
(***************************************************************************)
\* the counter read and returned without the increment of models.py:23
get_next_id_NoIncrement(counter) == counter

\* TestCaseCounter.get_next_id: the value returned, which is also the new last_id
get_next_id(counter) == counter + 1

\* TestCase.save: f'TC-{next_id}'
TestCaseId(n) == <<"TC-", n>>

\* update_or_create in place of create: an existing row takes the new name
CreateCustomer_Upsert(tbl, seq, customer_id, name) ==
    IF \E r \in tbl : r.customer_id = customer_id
    THEN {IF r.customer_id = customer_id THEN [r EXCEPT !.name = name] ELSE r : r \in tbl}
    ELSE tbl \cup {[id |-> seq + 1, customer_id |-> customer_id, name |-> name]}

\* customer_id without unique=True: every create inserts
CreateCustomer_NotUnique(tbl, seq, customer_id, name) ==
    tbl \cup {[id |-> seq + 1, customer_id |-> customer_id, name |-> name]}

\* TestCaseCustomer.objects.create: customer_id is unique; the row's primary
\* key is the next value of the table's sequence
CreateCustomer(tbl, seq, customer_id, name) ==
    IF \E r \in tbl : r.customer_id = customer_id
    THEN tbl
    ELSE tbl \cup {[id |-> seq + 1, customer_id |-> customer_id, name |-> name]}

\* TestCasePlatform.objects.create: platform_id is unique
CreatePlatform(tbl, seq, platform_id, name) ==
    IF \E r \in tbl : r.platform_id = platform_id
    THEN tbl
    ELSE tbl \cup {[id |-> seq + 1, platform_id |-> platform_id, name |-> name]}

\* objects.filter(pk__in=ids): the rows whose primary key is listed
FilterPk(tbl, ids) == {r \in tbl : r.id \in ids}

(***************************************************************************)
(* ingest_test_rail (ingestion.py:22-34).                                   *)
(***************************************************************************)
\* 'except Exception' at ingestion.py:33: the classes it catches
ExceptionClasses ==
    {"RequestException", "JSONDecodeError", "AttributeError", "TypeError",
     "IntegrityError"}

\* 'except requests.RequestException' in place of 'except Exception'
IsException_RequestOnly(exc) == exc = "RequestException"

IsException(exc) == exc \in ExceptionClasses

\* a failed request issued again in place of the exception going up
Propagate_Retry(exc) ==
    IF pc \in {"wait_get_project", "wait_get_suite", "wait_get_sections",
               "wait_get_cases", "wait_get_case_fields"}
    THEN /\ pc' = CASE pc = "wait_get_project" -> "call_get_project"
                    [] pc = "wait_get_suite" -> "call_get_suite"
                    [] pc = "wait_get_sections" -> "call_get_sections"
                    [] pc = "wait_get_cases" -> "call_get_cases"
                    [] pc = "wait_get_case_fields" -> "call_get_case_fields"
         /\ UNCHANGED <<outcome, logged>>
    ELSE /\ pc' = "idle"
         /\ outcome' = "returned"
         /\ logged' = Some(exc)

\* an exception leaves the body of ingest_test_rail
Propagate(exc) ==
    /\ pc' = "idle"
    /\ IF IsException(exc)
       THEN outcome' = "returned" /\ logged' = Some(exc)
       ELSE outcome' = "raised" /\ logged' = None

\* ingest_test_rail returns from its try body
Return ==
    /\ pc' = "idle"
    /\ outcome' = "returned"
    /\ logged' = None

\* where the call goes first, ingestion.py:26-29
FirstStep(ff) == IF ff THEN "call_get_case_fields" ELSE "call_get_project"

ingest_test_rail(ff) ==
    /\ pc = "idle"
    /\ runs < MaxRuns
    /\ runs' = runs + 1
    /\ fetch_fields' = ff
    /\ pc' = FirstStep(ff)
    /\ outcome' = "none"
    /\ logged' = None
    /\ offset' = 0
    /\ cases' = 0
    /\ next_link' = FALSE
    /\ idx' = 1
    /\ case' = None
    /\ customers' = None
    /\ platforms' = None
    /\ pos' = 1
    /\ requests' = <<>>
    /\ pageLog' = <<>>
    /\ startLastId' = last_id
    /\ UNCHANGED <<tables, outstanding, aux>>

(***************************************************************************)
(* get_response (utils.py:10-15): one GET, issued and then answered.        *)
(***************************************************************************)
CallStates ==
    {"call_get_project", "call_get_suite", "call_get_sections", "call_get_cases",
     "call_get_case_fields"}

Endpoint(p) ==
    CASE p \in {"call_get_project", "wait_get_project"} -> "get_project"
      [] p \in {"call_get_suite", "wait_get_suite"} -> "get_suite"
      [] p \in {"call_get_sections", "wait_get_sections"} -> "get_sections"
      [] p \in {"call_get_cases", "wait_get_cases"} -> "get_cases"
      [] p \in {"call_get_case_fields", "wait_get_case_fields"} -> "get_case_fields"

WaitState(p) ==
    CASE p = "call_get_project" -> "wait_get_project"
      [] p = "call_get_suite" -> "wait_get_suite"
      [] p = "call_get_sections" -> "wait_get_sections"
      [] p = "call_get_cases" -> "wait_get_cases"
      [] p = "call_get_case_fields" -> "wait_get_case_fields"

WaitStates == {WaitState(p) : p \in CallStates}

\* the query of a request: get_test_cases sends limit and offset
Params(p, off) ==
    IF p = "call_get_cases" THEN Some([limit |-> PageLimit, offset |-> off]) ELSE None

Send ==
    /\ pc \in CallStates
    /\ requests' = Append(requests, [endpoint |-> Endpoint(pc), params |-> Params(pc, offset)])
    /\ outstanding' = outstanding + 1
    /\ pc' = WaitState(pc)
    /\ UNCHANGED <<fetch_fields, outcome, logged, locals, tables, pageLog, startLastId, runs, aux>>

\* requests.get or response.json() raises
RecvFailure(exc) ==
    /\ pc \in WaitStates
    /\ outstanding' = outstanding - 1
    /\ Propagate(exc)
    /\ UNCHANGED <<fetch_fields, locals, tables, requests, pageLog, startLastId, runs, aux>>

\* get_suite left out of ingest_test_rail
AfterProject_SkipsSuite == "call_get_sections"

\* ingestion.py:29-32: the step after each metadata fetch
AfterProject == "call_get_suite"
AfterSuite == "call_get_sections"
AfterSections == "call_get_cases"

RecvMetadata(from, to) ==
    /\ pc = from
    /\ outstanding' = outstanding - 1
    /\ pc' = to
    /\ UNCHANGED <<fetch_fields, outcome, logged, locals, tables, requests, pageLog,
                   startLastId, runs, aux>>

get_project == RecvMetadata("wait_get_project", AfterProject)
get_suite == RecvMetadata("wait_get_suite", AfterSuite)
get_sections == RecvMetadata("wait_get_sections", AfterSections)

(***************************************************************************)
(* get_test_cases (ingestion.py:126-138).                                   *)
(***************************************************************************)
\* the page answered to the request at the current offset: size cases, with
\* or without a next-page link
get_test_cases(size, nxt) ==
    /\ pc = "wait_get_cases"
    /\ size <= MaxLastId - last_id
    /\ nxt => Len(pageLog) + 1 < MaxPages
    /\ outstanding' = outstanding - 1
    /\ cases' = size
    /\ next_link' = nxt
    /\ idx' = 1
    /\ case' = None
    /\ pageLog' = Append(pageLog, [offset |-> offset, size |-> size, next |-> nxt,
                                   fault |-> 0, step |-> "none"])
    /\ pc' = "import"
    /\ UNCHANGED <<fetch_fields, outcome, logged, offset, customers, platforms, pos,
                   tables, requests, startLastId, runs, aux>>

\* the next page fetched from inside the loop
LoopDone_Always(i, size) == TRUE

\* the import loop has left its last case behind (or was left by an exception)
LoopDone(i, size) == i > size

\* offset += 1 in place of offset += 250
NextOffset_PlusOne(off) == off + 1

\* ingestion.py:137
NextOffset(off) == off + PageLimit

\* the recursion entered whatever the page says
HasNextLink_Always(link) == TRUE

\* if response.get('_links', {}).get('next')
HasNextLink(link) == link

\* ingestion.py:135-138: recurse while the page carries a next link
FollowLinks ==
    /\ pc = "import"
    /\ LoopDone(idx, cases)
    /\ IF HasNextLink(next_link)
       THEN /\ offset' = NextOffset(offset)
            /\ pc' = "call_get_cases"
            /\ UNCHANGED <<outcome, logged>>
       ELSE /\ Return
            /\ UNCHANGED offset
    /\ UNCHANGED <<fetch_fields, cases, next_link, idx, case, customers, platforms, pos,
                   tables, requests, outstanding, pageLog, startLastId, runs, aux>>

(***************************************************************************)
(* import_test_cases_to_db (ingestion.py:141-174).                          *)
(***************************************************************************)
\* the attachment made without the test of ingestion.py:169,171
Truthy_Always(v) == TRUE

\* 'if customers:' / 'if platforms:' at ingestion.py:169,171
Truthy(v) == v.kind = "number" \/ (v.kind = "list" /\ v.ids # {})

\* One pass of the loop body over case c, the test_rail_id-th case of the
\* listing: the exception it raises (or None), the step that raised, whether
\* TestCaseCounter advanced, the row it left in the TestCase table, and the
\* relations on which it called set()
LoopBody(c, test_rail_id) ==
    LET row0 == [test_case_id |-> TestCaseId(get_next_id(last_id)),
                 test_rail_id |-> test_rail_id,
                 customers |-> {}, platforms |-> {}]
        row1 == IF Truthy(c.custom_customers)
                THEN [row0 EXCEPT !.customers =
                         {r.id : r \in FilterPk(customerTbl, c.custom_customers.ids)}]
                ELSE row0
        row2 == IF Truthy(c.custom_platfroms)
                THEN [row1 EXCEPT !.platforms =
                         {r.id : r \in FilterPk(platformTbl, c.custom_platfroms.ids)}]
                ELSE row1
        set1 == IF Truthy(c.custom_customers) THEN {"customers"} ELSE {}
        set2 == IF Truthy(c.custom_platfroms) THEN {"platforms"} ELSE {}
    IN  IF c.refs = "number"
        THEN \* refs.split on a value that is no string
             [exc |-> Some("AttributeError"), step |-> "normalization",
              counted |-> FALSE, row |-> None, set_calls |-> {}]
        ELSE IF c.title = "null"
        THEN \* the INSERT violates NOT NULL after get_next_id has committed
             [exc |-> Some("IntegrityError"), step |-> "creation",
              counted |-> TRUE, row |-> None, set_calls |-> {}]
        ELSE IF c.custom_customers.kind = "number"
        THEN \* pk__in of a value that is no list
             [exc |-> Some("TypeError"), step |-> "attachment",
              counted |-> TRUE, row |-> Some(row0), set_calls |-> {"customers"}]
        ELSE IF c.custom_platfroms.kind = "number"
        THEN [exc |-> Some("TypeError"), step |-> "attachment",
              counted |-> TRUE, row |-> Some(row1),
              set_calls |-> set1 \cup {"platforms"}]
        ELSE [exc |-> None, step |-> "none", counted |-> TRUE, row |-> Some(row2),
              set_calls |-> set1 \cup set2]

\* 'except ValueError' in place of 'except Exception'
ImportCatches_ValueErrorOnly(exc) == exc = "ValueError"

\* 'except Exception' at ingestion.py:173
ImportCatches(exc) == exc \in ExceptionClasses

\* try/except inside the loop: the loop goes on with the next case
LoopAfterRaise_Continue(i, size) == i + 1

\* where the loop stands after case i of size raised into the handler
LoopAfterRaise(i, size) == size + 1

\* update_or_create on test_rail_id in place of create
CreateTestCase_UpdateOrCreate(tbl, row) ==
    {r \in tbl : r.test_rail_id # row.test_rail_id} \cup {row}

\* TestCase.objects.create at ingestion.py:166: always an INSERT
CreateTestCase(tbl, row) == tbl \cup {row}

import_test_cases_to_db(c) ==
    /\ pc = "import"
    /\ idx <= cases
    /\ LET r == LoopBody(c, offset + idx)
       IN  /\ case' = Some([id |-> offset + idx,
                         custom_customers |-> c.custom_customers,
                         custom_platfroms |-> c.custom_platfroms,
                         created |-> r.row # None,
                         set_calls |-> r.set_calls])
           /\ last_id' = IF r.counted THEN get_next_id(last_id) ELSE last_id
           /\ testCaseTbl' = IF r.row = None THEN testCaseTbl
                             ELSE CreateTestCase(testCaseTbl, r.row[1])
           /\ IF r.exc = None
              THEN /\ idx' = idx + 1
                   /\ UNCHANGED <<pc, outcome, logged, pageLog>>
              ELSE /\ pageLog' = [pageLog EXCEPT ![Len(pageLog)] =
                                     [@ EXCEPT !.fault = idx, !.step = r.step]]
                   /\ IF ImportCatches(r.exc[1])
                      THEN /\ idx' = LoopAfterRaise(idx, cases)
                           /\ UNCHANGED <<pc, outcome, logged>>
                      ELSE /\ Propagate(r.exc[1])
                           /\ UNCHANGED idx
    /\ UNCHANGED <<fetch_fields, offset, cases, next_link, customers, platforms, pos,
                   lookups, requests, outstanding, startLastId, runs, aux>>

(***************************************************************************)
(* get_case_fields (ingestion.py:61-68) and the populate loops (94-123).    *)
(***************************************************************************)
get_case_fields(response) ==
    /\ pc = "wait_get_case_fields"
    /\ LET result == get_customers_platforms(response)
       IN  /\ customers' = DictGet(result, TEST_CASE_FIELDS[1])
           /\ platforms' = DictGet(result, TEST_CASE_FIELDS[2])
    /\ outstanding' = outstanding - 1
    /\ pos' = 1
    /\ pc' = "populate_customers"
    /\ UNCHANGED <<fetch_fields, outcome, logged, offset, cases, next_link, idx, case,
                   tables, requests, pageLog, startLastId, runs, aux>>

\* customers.items() / platforms.items() on None, ingestion.py:97,113
populate_none ==
    /\ \/ pc = "populate_customers" /\ customers = None
       \/ pc = "populate_platforms" /\ platforms = None
    /\ Propagate("AttributeError")
    /\ UNCHANGED <<fetch_fields, locals, tables, requests, outstanding, pageLog,
                   startLastId, runs, aux>>

\* one pass of the loop of populate_customers: the INSERT takes the next value
\* of the table's sequence whether or not the unique index then rejects it
\* (PostgreSQL, which the ArrayField and GinIndex of models.py require)
populate_customers ==
    /\ pc = "populate_customers"
    /\ customers # None
    /\ IF pos <= Len(customers[1])
       THEN /\ customerTbl' = CreateCustomer(customerTbl, customerSeq,
                                             customers[1][pos][1], customers[1][pos][2])
            /\ customerSeq' = customerSeq + 1
            /\ pos' = pos + 1
            /\ UNCHANGED pc
       ELSE /\ pc' = "populate_platforms"
            /\ pos' = 1
            /\ UNCHANGED <<customerTbl, customerSeq>>
    /\ UNCHANGED <<fetch_fields, outcome, logged, offset, cases, next_link, idx, case,
                   customers, platforms, testCaseTbl, last_id, platformTbl,
                   platformSeq, requests, outstanding, pageLog, startLastId, runs, aux>>

\* the return after get_case_fields left out
AfterCaseFields_NoReturn == "call_get_project"

\* ingestion.py:28: the return after get_case_fields
AfterCaseFields == "idle"

\* one pass of the loop of populate_platforms
populate_platforms ==
    /\ pc = "populate_platforms"
    /\ platforms # None
    /\ IF pos <= Len(platforms[1])
       THEN /\ platformTbl' = CreatePlatform(platformTbl, platformSeq,
                                             platforms[1][pos][1], platforms[1][pos][2])
            /\ platformSeq' = platformSeq + 1
            /\ pos' = pos + 1
            /\ UNCHANGED <<pc, outcome, logged>>
       ELSE /\ pc' = AfterCaseFields
            /\ outcome' = IF pc' = "idle" THEN "returned" ELSE outcome
            /\ logged' = None
            /\ pos' = 1
            /\ UNCHANGED <<platformTbl, platformSeq>>
    /\ UNCHANGED <<fetch_fields, offset, cases, next_link, idx, case,
                   customers, platforms, testCaseTbl, last_id, customerTbl,
                   customerSeq, requests, outstanding, pageLog, startLastId, runs, aux>>

(***************************************************************************)
(* The management command calls ingest_test_rail with either flag; the      *)
(* remote service answers each request or fails it.                         *)
(***************************************************************************)
Next ==
    \/ \E ff \in BOOLEAN : ingest_test_rail(ff)
    \/ Send
    \/ \E exc \in {"RequestException", "JSONDecodeError"} : RecvFailure(exc)
    \/ get_project
    \/ get_suite
    \/ get_sections
    \/ \E size \in 0..MaxLastId, nxt \in BOOLEAN : get_test_cases(size, nxt)
    \/ \E c \in CaseInputs : import_test_cases_to_db(c)
    \/ FollowLinks
    \/ \E response \in Payloads : get_case_fields(response)
    \/ populate_none
    \/ populate_customers
    \/ populate_platforms

Spec == Init /\ [][Next]_vars

(***************************************************************************)
(* Vocabulary of the properties.                                            *)
(***************************************************************************)
\* the last call of ingest_test_rail has ended
Ended == pc = "idle" /\ outcome # "none"

IsGetCases(r) == r.endpoint = "get_cases"

\* the get_cases requests of the current call, in order
CasesRequests == SelectSeq(requests, IsGetCases)

\* exceptions of the transport: requests.get, response.json
TransportErrors == {Some("RequestException"), Some("JSONDecodeError")}

\* TestCase rows created by the current call
CreatedInRun == {r \in testCaseTbl : r.test_case_id[2] > startLastId}

\* the catalog holds a row of the current call for the case of this external id
Imported(test_rail_id) == \E r \in CreatedInRun : r.test_rail_id = test_rail_id

PageNumbers == 1..Len(pageLog)

\* every case of page p was imported
PageImported(p) ==
    \A i \in 1..pageLog[p].size : Imported(pageLog[p].offset + i)

(***************************************************************************)
(* C1: a case-ingestion call that ends without any failure has issued       *)
(* exactly one get_cases request per page of the listing, with limit 250    *)
(* and offsets 0, 250, ..., 250*(k-1) in that order, every page but the     *)
(* last carried a next link, and all cases of all k pages are imported.     *)
(***************************************************************************)
NoFailure ==
    /\ Ended
    /\ ~fetch_fields
    /\ logged = None
    /\ \A p \in PageNumbers : pageLog[p].fault = 0

C1_OneRequestPerPage ==
    NoFailure =>
        LET k == Len(pageLog)
        IN  /\ k >= 1
            /\ Len(CasesRequests) = k
            /\ \A i \in 1..k :
                  /\ CasesRequests[i].params =
                         Some([limit |-> 250, offset |-> 250 * (i - 1)])
                  /\ pageLog[i].offset = 250 * (i - 1)
                  /\ pageLog[i].next = (i < k)
                  /\ PageImported(i)

C1_TwoPagesImported ==
    /\ NoFailure
    /\ Len(pageLog) = 2
    /\ pageLog[1].size >= 1
    /\ pageLog[2].size >= 1

(***************************************************************************)
(* C2 as claimed: when case N of a page of m cases raises at any step, the  *)
(* catalog holds a row for each of cases 1..N-1 of the page and none for    *)
(* cases N..m.                                                              *)
(***************************************************************************)
C2_FaultLosesCaseNToEnd ==
    \A p \in PageNumbers :
        pageLog[p].fault > 0 =>
            \A i \in 1..pageLog[p].size :
                Imported(pageLog[p].offset + i) <=> i < pageLog[p].fault

(***************************************************************************)
(* C2 amended: when case N raises during normalization or creation, the     *)
(* catalog holds rows for cases 1..N-1 and none for N..m; when it raises    *)
(* during customer/platform attachment, the row of case N is held as well   *)
(* (rows for 1..N, none for N+1..m).                                        *)
(***************************************************************************)
C2_FaultLosesRestOfPage ==
    \A p \in PageNumbers :
        pageLog[p].fault > 0 =>
            LET kept == IF pageLog[p].step = "attachment"
                        THEN pageLog[p].fault
                        ELSE pageLog[p].fault - 1
            IN  \A i \in 1..pageLog[p].size :
                    Imported(pageLog[p].offset + i) <=> i <= kept

C2_AttachmentFaultOnFirstOfTwo ==
    /\ Ended
    /\ \E p \in PageNumbers :
          /\ pageLog[p].size = 2
          /\ pageLog[p].fault = 1
          /\ pageLog[p].step = "attachment"

(***************************************************************************)
(* C3: a per-case exception never reaches get_test_cases or                 *)
(* ingest_test_rail (a case-ingestion call logs transport errors only);     *)
(* once the call has left a page whose import aborted and which carried a   *)
(* next link, the page at the previous offset plus 250 is the next request  *)
(* (about to be issued, or issued); and when the call ends without transport error, every page that did not  *)
(* abort is imported.                                                       *)
(***************************************************************************)
C3_AbortKeepsPaging ==
    /\ ~fetch_fields => logged \in {None} \cup TransportErrors
    /\ \A p \in PageNumbers :
          (/\ pageLog[p].fault > 0
           /\ pageLog[p].next
           /\ (p < Len(pageLog) \/ pc # "import"))
          => IF p = Len(pageLog) /\ pc = "call_get_cases"
             THEN offset = pageLog[p].offset + 250
             ELSE /\ Len(CasesRequests) > p
                  /\ CasesRequests[p + 1].params =
                         Some([limit |-> 250, offset |-> pageLog[p].offset + 250])
    /\ (Ended /\ ~fetch_fields /\ logged = None)
          => \A p \in PageNumbers : pageLog[p].fault = 0 => PageImported(p)

C3_NextPageImportedAfterAbort ==
    /\ Ended
    /\ logged = None
    /\ Len(pageLog) = 2
    /\ pageLog[1].fault > 0
    /\ pageLog[2].size >= 1
    /\ pageLog[2].fault = 0
    /\ PageImported(2)

(***************************************************************************)
(* C4: ingest_test_rail never raises to its invoker.                        *)
(***************************************************************************)
C4_NeverRaises == outcome # "raised"

C4_ExceptionSwallowed ==
    /\ Ended
    /\ outcome = "returned"
    /\ logged # None

(***************************************************************************)
(* C5: a call with the fetch-fields flag issues get_case_fields requests    *)
(* only and leaves the TestCase rows and their counter unchanged.           *)
(***************************************************************************)
C5_FieldsPathOnly ==
    /\ [](fetch_fields =>
            \A i \in 1..Len(requests) : requests[i].endpoint = "get_case_fields")
    /\ [][fetch_fields' => (testCaseTbl' = testCaseTbl /\ last_id' = last_id)]_vars

C5_FieldsRunOverCatalog ==
    /\ Ended
    /\ fetch_fields
    /\ logged = None
    /\ testCaseTbl # {}
    /\ platformTbl # {}

(***************************************************************************)
(* C6: at most one request is outstanding, no get_cases request is issued   *)
(* ahead of the pages received, and the request of page N+1 is issued only  *)
(* when the import loop of page N is over.                                  *)
(***************************************************************************)
C6_SequentialPaging ==
    /\ outstanding <= 1
    /\ Len(CasesRequests) <= Len(pageLog) + 1
    /\ (Len(pageLog) >= 1 /\ pc \in {"call_get_cases", "wait_get_cases"})
          => idx > cases

C6_SecondPageRequested ==
    /\ pc = "wait_get_cases"
    /\ outstanding = 1
    /\ Len(pageLog) = 1
    /\ pageLog[1].size = 2
    /\ pageLog[1].fault = 0

(***************************************************************************)
(* C7: a case-ingestion call fetches project, suite and sections once each, *)
(* in that order, before any get_cases request; a call that ends within     *)
(* these three fetches has issued no get_cases request and created no       *)
(* TestCase row.                                                            *)
(***************************************************************************)
MetadataOrder == <<"get_project", "get_suite", "get_sections">>

C7_MetadataFirst ==
    (~fetch_fields /\ runs > 0) =>
        /\ \A i \in 1..Len(requests) :
              requests[i].endpoint = IF i <= 3 THEN MetadataOrder[i] ELSE "get_cases"
        /\ (CreatedInRun # {} \/ last_id # startLastId) => Len(requests) > 3
        /\ (Ended /\ Len(requests) <= 3) =>
              /\ logged \in TransportErrors
              /\ CasesRequests = <<>>

C7_SuiteFetchFailed ==
    /\ Ended
    /\ ~fetch_fields
    /\ Len(requests) = 2
    /\ logged \in TransportErrors
    /\ testCaseTbl # {}

(***************************************************************************)
(* C8 as claimed: the customers (platforms) attached to the TestCase of an  *)
(* imported case listing the ids L are exactly the lookup rows whose        *)
(* customer_id (platform_id) is in L.                                       *)
(***************************************************************************)
C8_AttachedByExternalId ==
    \A r \in CreatedInRun :
        (/\ case # None
         /\ r.test_rail_id = case[1].id
         /\ case[1].custom_customers.kind # "number"
         /\ case[1].custom_platfroms.kind # "number")
        => /\ r.customers =
                 {x.id : x \in {y \in customerTbl :
                                  y.customer_id \in case[1].custom_customers.ids}}
           /\ r.platforms =
                 {x.id : x \in {y \in platformTbl :
                                  y.platform_id \in case[1].custom_platfroms.ids}}

(***************************************************************************)
(* C9: each pass of a populate loop over a mapping attempts one creation,   *)
(* does not raise, goes on to the next entry, keeps every existing row as   *)
(* it is (label included) and leaves exactly one row with the entry's id;   *)
(* every entry passed has a row.                                            *)
(***************************************************************************)
CustomerPass == pc = "populate_customers" /\ customers # None /\ pos <= Len(customers[1])
PlatformPass == pc = "populate_platforms" /\ platforms # None /\ pos <= Len(platforms[1])

C9_IsolatedCreation ==
    /\ [][CustomerPass =>
            /\ pc' = pc /\ pos' = pos + 1 /\ outcome' = "none" /\ logged' = None
            /\ customerSeq' = customerSeq + 1
            /\ customerTbl \subseteq customerTbl'
            /\ Cardinality({r \in customerTbl' :
                              r.customer_id = customers[1][pos][1]}) = 1]_vars
    /\ [][PlatformPass =>
            /\ pc' = pc /\ pos' = pos + 1 /\ outcome' = "none" /\ logged' = None
            /\ platformSeq' = platformSeq + 1
            /\ platformTbl \subseteq platformTbl'
            /\ Cardinality({r \in platformTbl' :
                              r.platform_id = platforms[1][pos][1]}) = 1]_vars
    /\ []((pc = "populate_customers" /\ customers # None) =>
            \A i \in 1..(pos - 1) :
                \E r \in customerTbl : r.customer_id = customers[1][i][1])
    /\ []((pc = "populate_platforms" /\ platforms # None) =>
            \A i \in 1..(pos - 1) :
                \E r \in platformTbl : r.platform_id = platforms[1][i][1])

\* the first entry was a duplicate with another label, the second was created
C9_DuplicateSkippedNextCreated ==
    /\ pc = "populate_customers"
    /\ customers # None
    /\ pos = 3
    /\ \E r \in customerTbl :
          r.customer_id = customers[1][1][1] /\ r.name # customers[1][1][2]
    /\ \E r \in customerTbl :
          /\ r.customer_id = customers[1][2][1]
          /\ r.name = customers[1][2][2]
          /\ r.id = customerSeq

(***************************************************************************)
(* C10 as claimed: a field-definition call whose payload was received ends  *)
(* without error even when a recognized field is missing from the payload,  *)
(* and the entries of each recognized field present have their rows.        *)
(***************************************************************************)
C10_MissingFieldIsNothingToPopulate ==
    (Ended /\ fetch_fields /\ logged \notin TransportErrors) =>
        /\ logged = None
        /\ customers # None =>
              \A i \in 1..Len(customers[1]) :
                  \E r \in customerTbl : r.customer_id = customers[1][i][1]
        /\ platforms # None =>
              \A i \in 1..Len(platforms[1]) :
                  \E r \in platformTbl : r.platform_id = platforms[1][i][1]

(***************************************************************************)
(* get_customers_platforms on its own.  An item line comes with what it     *)
(* is: whether it has the form "<int>, <text>", the integer its part before *)
(* the first ", " spells (if any) and the trimmed part after it.            *)
(***************************************************************************)
ItemLines ==
    { \* "1, a"
      [text |-> <<"1", ",", " ", "a">>, formed |-> TRUE, int |-> Some(1),
       label |-> <<"a">>],
      \* "2, b"
      [text |-> <<"2", ",", " ", "b">>, formed |-> TRUE, int |-> Some(2),
       label |-> <<"b">>],
      \* "1, c"
      [text |-> <<"1", ",", " ", "c">>, formed |-> TRUE, int |-> Some(1),
       label |-> <<"c">>],
      \* "12, ab "
      [text |-> <<"1", "2", ",", " ", "a", "b", " ">>, formed |-> TRUE,
       int |-> Some(12), label |-> <<"a", "b">>],
      \* "abc"
      [text |-> <<"a", "b", "c">>, formed |-> FALSE, int |-> None, label |-> <<>>],
      \* "1,a"
      [text |-> <<"1", ",", "a">>, formed |-> FALSE, int |-> None, label |-> <<>>],
      \* "2": an id with no label
      [text |-> <<"2">>, formed |-> FALSE, int |-> Some(2), label |-> <<>>],
      \* ""
      [text |-> <<>>, formed |-> FALSE, int |-> None, label |-> <<>>] }

ItemLists == UNION {[1..n -> ItemLines] : n \in 0..MaxLines}

\* a field descriptor: its name, the shape of its configs, its item lines
FieldInputs ==
    [system_name : {"custom_customers", "custom_platfroms", "custom_steps"},
     cfg : {"items"}, lines : ItemLists]
    \cup [system_name : {"custom_customers", "custom_platfroms"},
          cfg : {"none", "empty", "noitems"}, lines : {<<>>}]

\* the descriptors that may follow the first one
SecondFieldInputs ==
    { [system_name |-> "custom_platfroms", cfg |-> "items",
       lines |-> <<CHOOSE l \in ItemLines : l.text = <<"2">> >>],
      [system_name |-> "custom_customers", cfg |-> "noitems", lines |-> <<>>] }

ResolverInputs ==
    {<<>>} \cup {<<d>> : d \in FieldInputs}
           \cup {<<d, e>> : d \in FieldInputs, e \in SecondFieldInputs}

\* "\n".join(lines)
RECURSIVE Join(_)
Join(lines) ==
    IF lines = <<>> THEN <<>>
    ELSE IF Len(lines) = 1 THEN lines[1].text
    ELSE lines[1].text \o <<"\n">> \o Join(Tail(lines))

\* the descriptor as the service sends it
Encode(d) ==
    [system_name |-> d.system_name,
     configs |-> CASE d.cfg = "none" -> None
                   [] d.cfg = "empty" -> Some(<<>>)
                   [] d.cfg = "noitems" -> Some(<<None>>)
                   [] d.cfg = "items" -> Some(<<Some(Join(d.lines))>>)]

EncodeAll(ds) == [i \in 1..Len(ds) |-> Encode(ds[i])]

InitResolver ==
    /\ MainInit
    /\ arg \in {Some(ds) : ds \in ResolverInputs}
    /\ ret = None
    /\ proc = <<>>

CallResolver ==
    /\ arg # None
    /\ ret = None
    /\ ret' = Some(get_customers_platforms(EncodeAll(arg[1])))
    /\ UNCHANGED <<main, arg, proc, storage>>

SpecResolver == InitResolver /\ [][CallResolver]_vars

\* the descriptor that decides field f: the last one of that name
Deciding(ds, f) ==
    ds[CHOOSE i \in 1..Len(ds) :
          /\ ds[i].system_name = f
          /\ \A j \in (i + 1)..Len(ds) : ds[j].system_name # f]

\* the lines of d that count, given which lines are to be entered
Entered(d, Counts(_)) ==
    IF d.cfg = "items" THEN {i \in 1..Len(d.lines) : Counts(d.lines[i])} ELSE {}

\* id -> label pairs of the lines that count, the last line of an id deciding
PairsOf(d, Counts(_)) ==
    LET E == Entered(d, Counts)
    IN  {<<d.lines[i].int[1], d.lines[i].label>> :
            i \in {k \in E : \A j \in E : j > k => d.lines[j].int # d.lines[k].int}}

DictPairs(m) == {m[i] : i \in 1..Len(m)}

\* the result maps exactly the recognized fields present, each to the pairs
\* of its lines that count
ResolvesTo(Counts(_)) ==
    ret # None =>
        \A k \in 1..Len(TEST_CASE_FIELDS) :
            LET f == TEST_CASE_FIELDS[k]
                got == DictGet(ret[1], f)
            IN  IF \E i \in 1..Len(arg[1]) : arg[1][i].system_name = f
                THEN /\ got # None
                     /\ DictPairs(got[1]) = PairsOf(Deciding(arg[1], f), Counts)
                     /\ Cardinality(DictKeys(got[1])) = Len(got[1])
                ELSE got = None

IsFormed(l) == l.formed

(***************************************************************************)
(* C11 as claimed: for each recognized field present the mapping holds      *)
(* exactly the entries of the lines of the form "<int>, <text>"; every      *)
(* other line (such as "abc", or an id with no label) is skipped.           *)
(***************************************************************************)
C11_OnlyFormedLinesEntered == ResolvesTo(IsFormed)

\* the line "2" alone (an id with no label) is entered with the empty label
C11_IdWithoutLabelEntered ==
    /\ ret # None
    /\ Len(arg[1]) = 1
    /\ arg[1][1].system_name = "custom_customers"
    /\ Len(arg[1][1].lines) = 1
    /\ arg[1][1].lines[1].text = <<"2">>
    /\ DictGet(ret[1], "custom_customers") = Some(<< <<2, <<>> >> >>)

\* a malformed line first, then a line that is entered
C11_MalformedLineSkipped ==
    /\ ret # None
    /\ Len(arg[1]) = 1
    /\ arg[1][1].system_name = "custom_customers"
    /\ Len(arg[1][1].lines) = 2
    /\ arg[1][1].lines[1].text = <<"a", "b", "c">>
    /\ arg[1][1].lines[2].text = <<"2", ",", " ", "b">>
    /\ DictGet(ret[1], "custom_customers") = Some(<< <<2, <<"b">> >> >>)

(***************************************************************************)
(* sanitize_test_case_text on its own.  The argument is None, a string or   *)
(* (what the service may also send) a non-zero number; the result is the    *)
(* list returned, or the fact that the call raised.                         *)
(***************************************************************************)
TextChars == {"a", " ", "\n", "2", ".", "<"}

Texts == UNION {[1..n -> TextChars] : n \in 0..MaxTextLen}

SanitizeInputs ==
    {[kind |-> "none", text |-> <<>>], [kind |-> "number", text |-> <<>>]}
    \cup {[kind |-> "str", text |-> t] : t \in Texts}

\* 'text == ""' in place of 'not text' at utils.py:22
NotText_EmptyStringOnly(t) == t.kind = "str" /\ t.text = <<>>

\* not text
NotText(t) == t.kind = "none" \/ (t.kind = "str" /\ t.text = <<>>)

RECURSIVE DropWhile(_, _)
DropWhile(s, set) ==
    IF s # <<>> /\ Head(s) \in set THEN DropWhile(Tail(s), set) ELSE s

\* the line kept as it is, in place of the substitution at utils.py:27
StripBullet_Kept(line) == line

\* re.sub(r'^\d+\.\s*', '', line)
StripBullet(line) ==
    LET rest == DropWhile(line, Digits)
    IN  IF Len(rest) < Len(line) /\ rest # <<>> /\ Head(rest) = "."
        THEN DropWhile(Tail(rest), Whitespace)
        ELSE line

\* re.sub(r'\s+', ' ', step_text)
RECURSIVE Collapse(_)
Collapse(s) ==
    IF s = <<>> THEN <<>>
    ELSE IF Head(s) \in Whitespace
         THEN <<" ">> \o Collapse(DropWhile(Tail(s), Whitespace))
         ELSE <<Head(s)>> \o Collapse(Tail(s))

EscapeChar(c) ==
    CASE c = "&" -> <<"&", "a", "m", "p", ";">>
      [] c = "<" -> <<"&", "l", "t", ";">>
      [] c = ">" -> <<"&", "g", "t", ";">>
      [] c = "\"" -> <<"&", "q", "u", "o", "t", ";">>
      [] c = "'" -> <<"&", "#", "x", "2", "7", ";">>
      [] OTHER -> <<c>>

\* html.escape(step_text)
RECURSIVE Escape(_)
Escape(s) ==
    IF s = <<>> THEN <<>> ELSE EscapeChar(Head(s)) \o Escape(Tail(s))

sanitize_test_case_text(t) ==
    IF NotText(t) THEN [raised |-> FALSE, value |-> <<>>]
    ELSE IF t.kind # "str"
         THEN \* AttributeError: no strip() on None or on a number
              [raised |-> TRUE, value |-> <<>>]
         ELSE LET lines == Split(Strip(t.text), <<"\n">>)
              IN  [raised |-> FALSE,
                   value |-> [i \in 1..Len(lines) |->
                                [order |-> i,
                                 description |->
                                     Escape(Collapse(StripBullet(lines[i])))]]]

InitSanitize ==
    /\ MainInit
    /\ arg \in {Some(t) : t \in SanitizeInputs}
    /\ ret = None
    /\ proc = <<>>

CallSanitize ==
    /\ arg # None
    /\ ret = None
    /\ ret' = Some(sanitize_test_case_text(arg[1]))
    /\ UNCHANGED <<main, arg, proc, storage>>

SpecSanitize == InitSanitize /\ [][CallSanitize]_vars

\* the call was made on a string, and returned
Sanitized == ret # None /\ arg[1].kind = "str" /\ ~ret[1].raised

\* positions just outside the lines of s: before it, its newlines, after it
Breaks(s) == {0, Len(s) + 1} \cup {i \in 1..Len(s) : s[i] = "\n"}

NthBreak(s, i) ==
    CHOOSE b \in Breaks(s) : Cardinality({c \in Breaks(s) : c < b}) = i - 1

LineCount(s) == Cardinality(Breaks(s)) - 1

LineAt(s, i) == SubSeq(s, NthBreak(s, i) + 1, NthBreak(s, i + 1) - 1)

HasContent(line) == \E k \in 1..Len(line) : line[k] \notin Whitespace

\* s without the whitespace around it
Trimmed(s) ==
    LET inked == {k \in 1..Len(s) : s[k] \notin Whitespace}
    IN  IF inked = {} THEN <<>>
        ELSE SubSeq(s, CHOOSE k \in inked : \A j \in inked : k <= j,
                       CHOOSE k \in inked : \A j \in inked : k >= j)

(***************************************************************************)
(* C12 as claimed: for every text the order fields of the records are       *)
(* exactly 1, 2, ..., n in sequence, where n is the number of lines of the  *)
(* text that have content.                                                  *)
(***************************************************************************)
C12_OrdersCountLinesWithContent ==
    Sanitized =>
        LET T == arg[1].text
            out == ret[1].value
        IN  /\ \A i \in 1..Len(out) : out[i].order = i
            /\ Len(out) = Cardinality({i \in 1..LineCount(T) : HasContent(LineAt(T, i))})

\* "a\n\na": the empty line in the middle gets a record of its own
C12_EmptyLineNumbered ==
    /\ Sanitized
    /\ arg[1].text = <<"a", "\n", "\n", "a">>
    /\ Len(ret[1].value) = 3
    /\ ret[1].value[2] = [order |-> 2, description |-> <<>>]

(***************************************************************************)
(* C13: sanitize_test_case_text returns the empty sequence, without         *)
(* raising, when its input is absent or the empty string, and it raises on  *)
(* no string input.                                                         *)
(***************************************************************************)
C13_EmptyForAbsentTotalOnStrings ==
    ret # None =>
        /\ arg[1].kind \in {"none", "str"} => ~ret[1].raised
        /\ (arg[1].kind = "none" \/ arg[1] = [kind |-> "str", text |-> <<>>])
               => ret[1] = [raised |-> FALSE, value |-> <<>>]

C13_AbsentGivesEmpty ==
    /\ ret # None
    /\ arg[1].kind = "none"
    /\ ret[1].value = <<>>

\* the line starts with digits, a full stop and at least one blank; body
\* is what follows the blanks
IsBulleted(line, body) ==
    \E d \in 1..Len(line) : \E e \in (d + 2)..Len(line) :
        /\ \A k \in 1..d : line[k] \in Digits
        /\ line[d + 1] = "."
        /\ \A k \in (d + 2)..e : line[k] \in Whitespace
        /\ e = Len(line) \/ line[e + 1] \notin Whitespace
        /\ body = SubSeq(line, e + 1, Len(line))

\* nothing in body for the later substitutions to change
IsPlain(body) ==
    /\ \A k \in 1..Len(body) : body[k] \notin {"<", ">", "&", "\"", "'", "\t", "\n"}
    /\ \A k \in 1..(Len(body) - 1) : ~(body[k] = " " /\ body[k + 1] = " ")

Suffixes(line) == {SubSeq(line, k, Len(line)) : k \in 1..(Len(line) + 1)}

(***************************************************************************)
(* C14: a line that starts with a numeric bullet "N. " gives the record     *)
(* whose description is the text of the line after the bullet (escaped and  *)
(* with its runs of blanks collapsed, so the very text when there is        *)
(* nothing to escape or collapse) and whose order is the position of the    *)
(* line among the lines processed, whatever the number N.                   *)
(***************************************************************************)
C14_BulletStrippedOrderIsPosition ==
    Sanitized =>
        LET T == Trimmed(arg[1].text)
            out == ret[1].value
        IN  \A i \in 1..LineCount(T) : \A body \in Suffixes(LineAt(T, i)) :
                IsBulleted(LineAt(T, i), body) =>
                    /\ i <= Len(out)
                    /\ out[i].order = i
                    /\ out[i].description = Escape(Collapse(body))
                    /\ IsPlain(body) => out[i].description = body

\* "2. a" alone: order 1, not 2, and description "a"
C14_Bullet2AtPosition1 ==
    /\ Sanitized
    /\ arg[1].text = <<"2", ".", " ", "a">>
    /\ ret[1].value = <<[order |-> 1, description |-> <<"a">>]>>

\* the step is a pass of the import loop that raised nothing
ImportedOne ==
    /\ pc = "import"
    /\ idx <= cases
    /\ idx' = idx + 1
    /\ pageLog' = pageLog

\* rows of the catalog for the case of this external id
RowsOf(tbl, test_rail_id) == {r \in tbl : r.test_rail_id = test_rail_id}

InsertOnly ==
    /\ testCaseTbl \subseteq testCaseTbl'
    /\ ImportedOne =>
          \E row \in testCaseTbl' \ testCaseTbl :
              /\ testCaseTbl' = testCaseTbl \cup {row}
              /\ row.test_rail_id = offset + idx
              /\ \A r \in testCaseTbl : r.test_case_id # row.test_case_id

(***************************************************************************)
(* C15: case ingestion is insert-only.  No step removes or changes a Test   *)
(* Case row; every pass of the import loop that raises nothing adds exactly *)
(* one row, for the external id of its case and with a catalog identifier   *)
(* no earlier row has; and a run that ends without failure leaves, for      *)
(* every case it listed, exactly one more row of that external id than the  *)
(* catalog held before the run.  Hence r failure-free runs over one listing *)
(* leave r rows per external id, with pairwise distinct identifiers.        *)
(***************************************************************************)
C15_InsertOnly ==
    /\ [][InsertOnly]_vars
    /\ [](NoFailure =>
            \A p \in PageNumbers : \A i \in 1..pageLog[p].size :
                LET rows == RowsOf(testCaseTbl, pageLog[p].offset + i)
                IN  /\ Cardinality(rows \cap CreatedInRun) = 1
                    /\ Cardinality({r.test_case_id : r \in rows}) = Cardinality(rows))

\* the second failure-free run over the listing of one case: two rows of
\* external id 1, TC-1 and TC-2
C15_TwoRunsTwoRecords ==
    /\ NoFailure
    /\ runs = 2
    /\ Len(pageLog) = 1
    /\ pageLog[1].size = 1
    /\ {r.test_case_id : r \in RowsOf(testCaseTbl, 1)} = {TestCaseId(1), TestCaseId(2)}

\* the numbers n of the identifiers TC-<n> in the catalog
CatalogNumbers == {r.test_case_id[2] : r \in testCaseTbl}

(***************************************************************************)
(* C16 as claimed: the number n of each created Test Case is one more than  *)
(* the number of the Test Case created before it, 1 for the first: the      *)
(* numbers in the catalog are 1, 2, ..., up to the count of its rows.       *)
(***************************************************************************)
C16_NumbersWithoutGaps == CatalogNumbers = 1..Cardinality(testCaseTbl)

\* a step that adds Test Case rows adds one, numbered by the counter alone
NumberedByCounter ==
    testCaseTbl' # testCaseTbl =>
        /\ last_id' = last_id + 1
        /\ \E test_rail_id \in {offset + idx} :
              \E row \in testCaseTbl' \ testCaseTbl :
                  /\ testCaseTbl' \ testCaseTbl = {row}
                  /\ row.test_case_id = <<"TC-", last_id + 1>>
                  /\ row.test_rail_id = test_rail_id

(***************************************************************************)
(* C16 amended: in sequential operation every Test Case created without an  *)
(* identifier receives TC-<n> where n is one more than the counter value    *)
(* at the time of the save, that is one more than the number of creations   *)
(* attempted before it, the failed ones included (a creation the database   *)
(* rejects has used its number, which no row gets); so the identifiers in   *)
(* the catalog are pairwise distinct, never above the counter, and n does   *)
(* not depend on the external id of the case.                               *)
(***************************************************************************)
C16_NumberedByCounter ==
    /\ [][NumberedByCounter]_vars
    /\ [](/\ \A r1, r2 \in testCaseTbl : r1.test_case_id = r2.test_case_id => r1 = r2
          /\ CatalogNumbers \subseteq 1..last_id)

\* the creation of the first case was rejected; the next case created, of
\* external id 251, is TC-2 and the only row
C16_GapAfterRejectedCreation ==
    /\ last_id = 2
    /\ \E r \in testCaseTbl :
          /\ testCaseTbl = {r}
          /\ r.test_case_id = TestCaseId(2)
          /\ r.test_rail_id = 251

(***************************************************************************)
(* Two field-definition runs at once (ingestion.py:61-68, 94-123).  Each    *)
(* run holds the mappings it resolved; the lookup tables and their          *)
(* sequences are shared.  objects.create is one INSERT, which the unique    *)
(* index of the table accepts or rejects as a whole, so each pass of a      *)
(* populate loop is one step.                                               *)
(***************************************************************************)
Procs == {1, 2}

RaceCustomers ==
    { << <<1, <<"a">> >> >>,
      << <<1, <<"a">> >>, <<2, <<"b">> >> >>,
      << <<2, <<"b">> >>, <<1, <<"c">> >> >> }

RacePlatforms ==
    { <<>>, << <<1, <<"a">> >> >> }

InitRace ==
    /\ MainInit
    /\ arg = None
    /\ ret = None
    /\ proc \in [Procs -> [pc : {"populate_customers"}, customers : RaceCustomers,
                           platforms : RacePlatforms, pos : {1}, caught : {{}}]]

\* no handler around objects.create
PopulateCatches_Nothing(exc) == FALSE

\* 'except Exception' at ingestion.py:105,121
PopulateCatches(exc) == exc \in ExceptionClasses

\* where run q stands after a pass over entry k of table t, rejected or not
AfterCreate(q, t, k, rejected) ==
    IF ~rejected THEN [q EXCEPT !.pos = @ + 1]
    ELSE IF PopulateCatches("IntegrityError")
         THEN [q EXCEPT !.pos = @ + 1, !.caught = @ \cup {<<t, k>>}]
         ELSE \* out of get_case_fields, into the handler of ingest_test_rail
              [q EXCEPT !.pc = "raised"]

RacePopulateCustomers(p) ==
    /\ proc # <<>>
    /\ proc[p].pc = "populate_customers"
    /\ LET q == proc[p]
       IN  IF q.pos <= Len(q.customers)
           THEN LET k == q.customers[q.pos][1]
                    rejected == \E r \in customerTbl : r.customer_id = k
                IN  /\ customerTbl' = CreateCustomer(customerTbl, customerSeq, k,
                                                     q.customers[q.pos][2])
                    /\ customerSeq' = customerSeq + 1
                    /\ proc' = [proc EXCEPT ![p] =
                                   AfterCreate(q, "customer", k, rejected)]
           ELSE /\ proc' = [proc EXCEPT ![p] =
                               [q EXCEPT !.pc = "populate_platforms", !.pos = 1]]
                /\ UNCHANGED <<customerTbl, customerSeq>>
    /\ UNCHANGED <<locals, testCaseTbl, last_id, platformTbl, platformSeq, requests,
                   outstanding, pageLog, startLastId, runs, pc, fetch_fields,
                   outcome, logged, arg, ret, storage>>

RacePopulatePlatforms(p) ==
    /\ proc # <<>>
    /\ proc[p].pc = "populate_platforms"
    /\ LET q == proc[p]
       IN  IF q.pos <= Len(q.platforms)
           THEN LET k == q.platforms[q.pos][1]
                    rejected == \E r \in platformTbl : r.platform_id = k
                IN  /\ platformTbl' = CreatePlatform(platformTbl, platformSeq, k,
                                                     q.platforms[q.pos][2])
                    /\ platformSeq' = platformSeq + 1
                    /\ proc' = [proc EXCEPT ![p] =
                                   AfterCreate(q, "platform", k, rejected)]
           ELSE /\ proc' = [proc EXCEPT ![p] = [q EXCEPT !.pc = "returned"]]
                /\ UNCHANGED <<platformTbl, platformSeq>>
    /\ UNCHANGED <<locals, testCaseTbl, last_id, customerTbl, customerSeq, requests,
                   outstanding, pageLog, startLastId, runs, pc, fetch_fields,
                   outcome, logged, arg, ret, storage>>

NextRace ==
    \E p \in Procs : RacePopulateCustomers(p) \/ RacePopulatePlatforms(p)

SpecRace == InitRace /\ [][NextRace]_vars

BothReturned == proc # <<>> /\ \A p \in Procs : proc[p].pc = "returned"

CustomerIdsOf(p) == DictKeys(proc[p].customers)

(***************************************************************************)
(* C17: when two field-definition runs try at once to create the lookup     *)
(* row of one external id, then in every interleaving neither run ends by   *)
(* an exception, and once both have returned there is exactly one row of    *)
(* that id, labelled by the run that was not rejected; exactly one of the   *)
(* two runs caught a uniqueness violation for the id; and every other id    *)
(* of either run has its row too.                                           *)
(***************************************************************************)
C17_OneRowPerRacedId ==
    proc # <<>> =>
        /\ \A p \in Procs : proc[p].pc # "raised"
        /\ BothReturned =>
              /\ \A k \in CustomerIdsOf(1) \cap CustomerIdsOf(2) :
                    \E winner \in Procs : \E r \in customerTbl :
                        /\ {x \in customerTbl : x.customer_id = k} = {r}
                        /\ {p \in Procs : <<"customer", k>> \in proc[p].caught}
                               = Procs \ {winner}
                        /\ Some(r.name) = DictGet(proc[winner].customers, k)
              /\ \A p \in Procs : \A k \in CustomerIdsOf(p) :
                    Cardinality({x \in customerTbl : x.customer_id = k}) = 1

\* each run was rejected once, on the id the other had entered first, and
\* went on: the second run tried id 1 after it had created the row of id 2
C17_LoserWentOn ==
    /\ BothReturned
    /\ proc[1].customers = << <<1, <<"a">> >>, <<2, <<"b">> >> >>
    /\ proc[2].customers = << <<2, <<"b">> >>, <<1, <<"c">> >> >>
    /\ proc[1].caught = {<<"customer", 2>>}
    /\ proc[2].caught = {<<"customer", 1>>}
    /\ \E r \in customerTbl : r.customer_id = 1 /\ r.name = <<"a">>

(***************************************************************************)
(* The field-definition path run again and again while the service keeps    *)
(* answering get_case_fields with one and the same payload.                 *)
(***************************************************************************)
InitRepeat ==
    /\ MainInit
    /\ arg \in {Some(response) : response \in Payloads}
    /\ ret = None
    /\ proc = <<>>

NextRepeat ==
    \/ ingest_test_rail(TRUE)
    \/ Send
    \/ \E exc \in {"RequestException", "JSONDecodeError"} : RecvFailure(exc)
    \/ get_case_fields(arg[1])
    \/ populate_none
    \/ populate_customers
    \/ populate_platforms

SpecRepeat == InitRepeat /\ [][NextRepeat]_vars

\* a field-definition run has ended that got its answer
FieldsRunEnded ==
    /\ arg # None
    /\ Ended
    /\ fetch_fields
    /\ logged \notin TransportErrors

\* what one run over the payload leaves in a table: a row per id of the
\* mapping resolved for the field, if the run gets to that table at all
ResolvedFor(k) == DictGet(get_customers_platforms(arg[1]), TEST_CASE_FIELDS[k])

RowsOfOneRun(k) ==
    IF \A j \in 1..k : ResolvedFor(j) # None THEN DictPairs(ResolvedFor(k)[1]) ELSE {}

(***************************************************************************)
(* C18: however many times the field-definition path has run over one       *)
(* payload, once or more, when a run ends the customer and platform tables  *)
(* hold what a single run leaves: one row per external id, with the label   *)
(* the payload gives it.                                                    *)
(***************************************************************************)
C18_RepeatLeavesSameLookups ==
    FieldsRunEnded =>
        /\ {<<r.customer_id, r.name>> : r \in customerTbl} = RowsOfOneRun(1)
        /\ {<<r.platform_id, r.name>> : r \in platformTbl} = RowsOfOneRun(2)
        /\ Cardinality(customerTbl) = Cardinality({r.customer_id : r \in customerTbl})
        /\ Cardinality(platformTbl) = Cardinality({r.platform_id : r \in platformTbl})

\* the second run has tried both customers again (four INSERTs, two rows)
C18_SecondRunRejected ==
    /\ FieldsRunEnded
    /\ logged = None
    /\ runs = 2
    /\ customerSeq = 4
    /\ Cardinality(customerTbl) = 2

\* the row that the pass over the current case left in the catalog, if it
\* got as far as the creation
RowOfCase ==
    IF case[1].created
    THEN {r \in testCaseTbl :
             r.test_rail_id = case[1].id /\ r.test_case_id = TestCaseId(last_id)}
    ELSE {}

(***************************************************************************)
(* C19: for a case without custom_customers (without custom_platfroms) the  *)
(* import calls no set() on the customers (platforms) relation, and the     *)
(* Test Case it creates has that relation empty.                            *)
(***************************************************************************)
C19_NoAttachmentWithoutField ==
    case # None =>
        /\ case[1].created => RowOfCase # {}
        /\ case[1].custom_customers.kind = "absent" =>
              /\ "customers" \notin case[1].set_calls
              /\ \A r \in RowOfCase : r.customers = {}
        /\ case[1].custom_platfroms.kind = "absent" =>
              /\ "platforms" \notin case[1].set_calls
              /\ \A r \in RowOfCase : r.platforms = {}

\* a case with platforms and without customers: created, one set() call
C19_CreatedWithPlatformsOnly ==
    /\ case # None
    /\ case[1].custom_customers.kind = "absent"
    /\ case[1].custom_platfroms.kind = "list"
    /\ case[1].created
    /\ case[1].set_calls = {"platforms"}
    /\ \E r \in RowOfCase : r.customers = {}

\* the import loop over page p is over
PageDone(p) == p < Len(pageLog) \/ Ended \/ (pc = "import" /\ idx > cases)

(***************************************************************************)
(* C20 as claimed: a case whose reference list cannot be parsed is skipped  *)
(* alone; the cases after it in the same page are still imported.           *)
(***************************************************************************)
C20_MalformedRefsSkippedAlone ==
    \A p \in PageNumbers :
        (PageDone(p) /\ pageLog[p].step = "normalization") =>
            \A i \in (pageLog[p].fault + 1)..pageLog[p].size :
                Imported(pageLog[p].offset + i)

\* the first of two cases had refs that are no string: the page is over and
\* the second case was never looked at
C20_SecondCaseNotImported ==
    /\ Len(pageLog) = 1
    /\ PageDone(1)
    /\ pageLog[1].size = 2
    /\ pageLog[1].fault = 1
    /\ pageLog[1].step = "normalization"
    /\ testCaseTbl = {}
    /\ last_id = 0

(***************************************************************************)
(* The tickets of a Test Case (ingestion.py:146-147, 155, 166).  refs is    *)
(* missing, a JSON value that is no string, or a string of references.      *)
(* objects.create saves without full_clean, so the validators of the        *)
(* ArrayField do not run, and PostgreSQL does not enforce the declared size *)
(* of an array column: what create is given is what the row holds.          *)
(***************************************************************************)
RefTokens == {<<"a">>, <<" ", "a", "b">>, <<"a", " ">>}

RefSeparators == {<<",">>, <<",", " ">>, <<";">>}

\* n times the token, the separator between them
RECURSIVE Repeat(_, _, _)
Repeat(n, token, sep) ==
    IF n = 0 THEN <<>>
    ELSE IF n = 1 THEN token
    ELSE token \o sep \o Repeat(n - 1, token, sep)

RefsInputs ==
    {[kind |-> "none", text |-> <<>>], [kind |-> "number", text |-> <<>>]}
    \cup {[kind |-> "str", text |-> Repeat(n, token, sep)] :
             n \in 0..MaxRefs, token \in RefTokens, sep \in RefSeparators}

StripAll(parts) == [i \in 1..Len(parts) |-> Strip(parts[i])]

\* [x.strip() for x in refs.split(',')] if refs else None
TicketsOf(refs) ==
    IF refs.kind = "none" \/ (refs.kind = "str" /\ refs.text = <<>>)
    THEN [raised |-> FALSE, tickets |-> None]
    ELSE IF refs.kind # "str"
         THEN \* AttributeError: no split() on a number
              [raised |-> TRUE, tickets |-> None]
         ELSE [raised |-> FALSE,
               tickets |-> Some(StripAll(Split(refs.text, <<",">>)))]

\* the tickets column of the row that objects.create inserts
StoredTickets(tickets) == tickets

InitTickets ==
    /\ MainInit
    /\ arg \in {Some(refs) : refs \in RefsInputs}
    /\ ret = None
    /\ proc = <<>>

\* ingestion.py:146-166 for the tickets of one case
CreateWithTickets ==
    /\ arg # None
    /\ ret = None
    /\ LET t == TicketsOf(arg[1])
       IN  ret' = Some([raised |-> t.raised,
                        persisted |-> ~t.raised,
                        tickets |-> IF t.raised THEN None
                                    ELSE StoredTickets(t.tickets)])
    /\ UNCHANGED <<main, arg, proc, storage>>

SpecTickets == InitTickets /\ [][CreateWithTickets]_vars

(***************************************************************************)
(* C21 as claimed: every Test Case record that ingestion persists holds at  *)
(* most 10 tickets, however many references the remote case carries.        *)
(***************************************************************************)
C21_AtMostTenTickets ==
    (ret # None /\ ret[1].persisted /\ ret[1].tickets # None) =>
        Len(ret[1].tickets[1]) <= TicketsSize

\* eleven references "a,a,...,a": a row with eleven tickets
C21_ElevenTicketsStored ==
    /\ ret # None
    /\ arg[1].text = Repeat(11, <<"a">>, <<",">>)
    /\ ret[1].persisted
    /\ ret[1].tickets = Some([i \in 1..11 |-> <<"a">>])

(***************************************************************************)
(* S3Client.download_content_from_s3 (s3_utils.py:98-121) against a bucket  *)
(* that holds, under the one key, nothing or the content of some version.   *)
(* The store names a content by its ETag, a quoted string; upload and       *)
(* metadata hand the caller the ETag without its quotes (s3_utils.py:54,    *)
(* 89), and download puts them back.                                        *)
(***************************************************************************)
Versions == 1..MaxVersions

Content(v) == <<"content", v>>

Quoted(e) == <<"\"">> \o e \o <<"\"">>

\* the digest of the content of version v: "e", "ee", ...
Digest(v) == [i \in 1..v |-> "e"]

\* the ETag header of the store for the content of version v
ETagHeader(v) == Quoted(Digest(v))

\* str.strip('"')
RECURSIVE StripQuotes(_)
StripQuotes(e) ==
    IF e # <<>> /\ Head(e) = "\"" THEN StripQuotes(Tail(e))
    ELSE IF e # <<>> /\ e[Len(e)] = "\"" THEN StripQuotes(SubSeq(e, 1, Len(e) - 1))
    ELSE e

\* the etags a caller may hold: none, the empty string, or one it was given
PriorEtags == {None, Some(<<>>)} \cup {Some(StripQuotes(ETagHeader(v))) : v \in Versions}

\* params of get_object, s3_utils.py:100-102
GetObjectParams(etag) ==
    IF etag # None /\ etag[1] # <<>>
    THEN [IfNoneMatch |-> Some(Quoted(etag[1]))]
    ELSE [IfNoneMatch |-> None]

\* what befalls a request apart from the state of the object
Faults ==
    {[kind |-> "none", code |-> ""]}
    \cup {[kind |-> "ClientError", code |-> c] :
             c \in {"404", "NotFound", "AccessDenied", "InternalError", ""}}
    \cup {[kind |-> "EndpointConnectionError", code |-> ""]}

\* the answer of the store to get_object
GetObject(object, params, fault) ==
    IF fault.kind # "none" THEN fault
    ELSE IF object = None THEN [kind |-> "ClientError", code |-> "NoSuchKey"]
    ELSE IF params.IfNoneMatch = Some(ETagHeader(object[1]))
         THEN [kind |-> "ClientError", code |-> "304"]
         ELSE [kind |-> "ok", code |-> ""]

\* the test of s3_utils.py:111 left out
IsNotModified_Never(code) == FALSE

\* code == '304'
IsNotModified(code) == code = "304"

\* the result of download_content_from_s3, or the exception it lets through
DownloadResult(object, answer) ==
    IF answer.kind = "ok"
    THEN [raised |-> FALSE,
          value |-> << <<"status", TRUE>>, <<"content", Content(object[1])>> >>]
    ELSE IF answer.kind = "ClientError"
         THEN IF IsNotModified(answer.code)
              THEN [raised |-> FALSE,
                    value |-> << <<"status", FALSE>>, <<"no_change_in_etag", TRUE>> >>]
              ELSE [raised |-> FALSE, value |-> << <<"status", FALSE>> >>]
         ELSE \* no ClientError: not caught
              [raised |-> TRUE, value |-> <<>>]

InitS3 ==
    /\ MainInit
    /\ arg = None
    /\ ret = None
    /\ proc = <<>>

\* put_object by any writer: the next content
put_object(v) ==
    /\ s3' = Some(v)
    /\ UNCHANGED <<main, arg, ret, proc, historyTbl>>

delete_object ==
    /\ s3 # None
    /\ s3' = None
    /\ UNCHANGED <<main, arg, ret, proc, historyTbl>>

download_content_from_s3(etag, fault) ==
    /\ arg' = Some(etag)
    /\ LET answer == GetObject(s3, GetObjectParams(etag), fault)
       IN  ret' = Some([object |-> s3, answer |-> answer,
                        result |-> DownloadResult(s3, answer)])
    /\ UNCHANGED <<main, proc, storage>>

NextS3 ==
    \/ \E v \in Versions : put_object(v)
    \/ delete_object
    \/ \E etag \in PriorEtags, fault \in Faults : download_content_from_s3(etag, fault)

SpecS3 == InitS3 /\ [][NextS3]_vars

Downloaded == arg # None /\ ret # None /\ "answer" \in DOMAIN ret[1]

(***************************************************************************)
(* C22: download_content_from_s3 raises on no client error of the store.    *)
(* When the store answers 304 the result is status false with               *)
(* no_change_in_etag true; for a missing object and for every other client  *)
(* error it is status false and nothing else; for a download it is status   *)
(* true with the content.  The store answers 304 exactly when the caller's  *)
(* etag is that of the object held, so an unchanged object is told from a   *)
(* missing one and from a changed one.                                      *)
(***************************************************************************)
C22_NotModifiedDistinguished ==
    Downloaded =>
        LET answer == ret[1].answer
            result == ret[1].result
            held == ret[1].object
        IN  /\ answer.kind = "ClientError" => ~result.raised
            /\ (answer.kind = "ClientError" /\ answer.code = "304") =>
                  /\ DictGet(result.value, "status") = Some(FALSE)
                  /\ DictGet(result.value, "no_change_in_etag") = Some(TRUE)
                  /\ DictGet(result.value, "content") = None
            /\ (answer.kind = "ClientError" /\ answer.code # "304") =>
                  result.value = << <<"status", FALSE>> >>
            /\ answer.kind = "ok" =>
                  /\ ~result.raised
                  /\ DictGet(result.value, "status") = Some(TRUE)
                  /\ DictGet(result.value, "content") = Some(Content(held[1]))
                  /\ DictGet(result.value, "no_change_in_etag") = None
            /\ (answer.kind = "ClientError" /\ answer.code = "304") <=>
                  \E v \in Versions :
                      /\ held = Some(v)
                      /\ arg[1] = Some(Digest(v))
                      /\ answer \notin Faults

\* the object is still version 1, whose etag the caller holds
C22_UnchangedObject ==
    /\ Downloaded
    /\ ret[1].object = Some(1)
    /\ arg[1] = Some(<<"e">>)
    /\ ret[1].result =
           [raised |-> FALSE,
            value |-> << <<"status", FALSE>>, <<"no_change_in_etag", TRUE>> >>]

\* the current call ended by a failure of its k-th get_cases fetch
CasesFetchFailed(k) ==
    /\ Ended
    /\ ~fetch_fields
    /\ logged \in TransportErrors
    /\ requests # <<>>
    /\ IsGetCases(requests[Len(requests)])
    /\ Len(CasesRequests) = k
    /\ Len(pageLog) = k - 1

(***************************************************************************)
(* C23: there is no retry.  Within one call no request (endpoint and        *)
(* offset) is issued twice.  When the get_cases fetch of page k fails the   *)
(* call ends there: the failed request is the last one issued, no case of   *)
(* page k or of a later page is imported, and the rows created from the     *)
(* pages before k are in the catalog, all cases of every such page that     *)
(* had no fault of its own.                                                 *)
(***************************************************************************)
C23_NoRetryFetchFailureEndsRun ==
    /\ \A i, j \in 1..Len(requests) : requests[i] = requests[j] => i = j
    /\ \A k \in 1..MaxPages :
          CasesFetchFailed(k) =>
              /\ CasesRequests[k].params =
                     Some([limit |-> PageLimit, offset |-> PageLimit * (k - 1)])
              /\ \A r \in CreatedInRun : r.test_rail_id <= PageLimit * (k - 1)
              /\ \A p \in 1..(k - 1) : pageLog[p].fault = 0 => PageImported(p)

\* the fetch of the second page failed: the case of the first page stays
C23_SecondFetchFailed ==
    /\ CasesFetchFailed(2)
    /\ pageLog[1].size = 1
    /\ pageLog[1].fault = 0
    /\ Imported(1)

(***************************************************************************)
(* TestCaseCounter.get_next_id (models.py:19-25; TestRunCounter.get_next_id *)
(* at models.py:38-44 is the same code) called by two callers at once, each *)
(* call in its own transaction, at PostgreSQL's and Django's default        *)
(* isolation level, read committed:                                         *)
(*  - get_or_create reads the committed row, without locking it (there is   *)
(*    no select_for_update); while no row is committed it inserts one with  *)
(*    last_id 0, and waits if another transaction has inserted one and not  *)
(*    yet committed, then reads that one;                                   *)
(*  - counter.last_id += 1 is computed by the caller from what it read;     *)
(*  - save is an UPDATE that sets last_id to that number; it waits while    *)
(*    another transaction holds the row, and is not computed again;         *)
(*  - leaving the atomic block commits.                                     *)
(* last_id is the committed value (0: no row committed).                    *)
(***************************************************************************)
InitCounter ==
    /\ MainInit
    /\ arg = None
    /\ ret = None
    /\ proc = [p \in Procs |-> [pc |-> "idle", created |-> FALSE, read |-> 0,
                                returned |-> <<>>]]

\* another transaction holds the row: it inserted or updated it and has not
\* committed
HeldByOther(p) ==
    \E q \in Procs \ {p} :
        \/ proc[q].pc = "saved"
        \/ proc[q].pc = "got" /\ proc[q].created

\* with transaction.atomic(): counter, created = cls.objects.get_or_create(id=1)
get_or_create(p) ==
    /\ proc # <<>>
    /\ proc[p].pc = "idle"
    /\ Len(proc[p].returned) < MaxCalls
    /\ IF last_id = 0
       THEN /\ ~HeldByOther(p)
            /\ proc' = [proc EXCEPT ![p].pc = "got", ![p].created = TRUE, ![p].read = 0]
       ELSE proc' = [proc EXCEPT ![p].pc = "got", ![p].created = FALSE,
                                 ![p].read = last_id]
    /\ UNCHANGED <<main, arg, ret, storage>>

\* counter.last_id += 1; counter.save()
counter_save(p) ==
    /\ proc # <<>>
    /\ proc[p].pc = "got"
    /\ ~HeldByOther(p)
    /\ proc' = [proc EXCEPT ![p].pc = "saved", ![p].read = get_next_id(@)]
    /\ UNCHANGED <<main, arg, ret, storage>>

\* return counter.last_id, the transaction committing on the way out
counter_return(p) ==
    /\ proc # <<>>
    /\ proc[p].pc = "saved"
    /\ last_id' = proc[p].read
    /\ proc' = [proc EXCEPT ![p].pc = "idle", ![p].created = FALSE,
                            ![p].returned = Append(@, proc[p].read)]
    /\ UNCHANGED <<pc, fetch_fields, outcome, logged, locals, testCaseTbl, lookups,
                   requests, outstanding, pageLog, startLastId, runs, arg, ret,
                   storage>>

NextCounter ==
    \E p \in Procs : get_or_create(p) \/ counter_save(p) \/ counter_return(p)

SpecCounter == InitCounter /\ [][NextCounter]_vars

\* the calls completed so far, by caller and number
CompletedCalls ==
    {c \in Procs \X (1..MaxCalls) : c[2] <= Len(proc[c[1]].returned)}

(***************************************************************************)
(* C24 as claimed: in every interleaving of concurrent calls no two calls   *)
(* return the same value, and last_id equals the number of calls completed. *)
(***************************************************************************)
C24_NoTwoCallsReturnSame ==
    proc # <<>> =>
        /\ \A c, d \in CompletedCalls :
              proc[c[1]].returned[c[2]] = proc[d[1]].returned[d[2]] => c = d
        /\ last_id = Cardinality(CompletedCalls)

\* both callers read last_id 1 before either saved: both return 2, and
\* after three calls last_id is 2
C24_LostUpdate ==
    /\ proc # <<>>
    /\ proc[1].returned = <<1, 2>>
    /\ proc[2].returned = <<2>>
    /\ proc[2].pc = "idle"
    /\ last_id = 2

(***************************************************************************)
(* TestCaseHistory.save (models.py:159-166), one save after the other.  An  *)
(* object saved is new (pk None, holding whatever version its maker gave    *)
(* it, or none) or was loaded from a row, with that row's pk and version    *)
(* and possibly another updated_by.                                         *)
(***************************************************************************)
HistoryCases == {"TC-1", "TC-2"}

Users == {"u1", "u2"}

\* the versions a new object may hold before it is saved
HeldVersions == {None, Some(7)}

\* 'if True' in place of 'if not self.pk' at models.py:160
NeedsVersion_Always(obj) == TRUE

\* if not self.pk
NeedsVersion(obj) == obj.pk = None

\* TestCaseHistory.objects.filter(test_case=...).order_by('-version').first()
LastOf(tbl, test_case) ==
    LET rows == {r \in tbl : r.test_case = test_case}
    IN  IF rows = {} THEN None
        ELSE Some(CHOOSE r \in rows : \A x \in rows : x.version <= r.version)

\* self.version as save leaves it
VersionOf(tbl, obj) ==
    IF NeedsVersion(obj)
    THEN LET last == LastOf(tbl, obj.test_case)
         IN  IF last # None THEN last[1].version + 1 ELSE 1
    ELSE obj.version[1]

\* super().save(): an INSERT with the next primary key for an object
\* without pk, an UPDATE of the row of that pk otherwise
history_save(tbl, obj) ==
    LET row == [pk |-> IF obj.pk = None THEN Cardinality(tbl) + 1 ELSE obj.pk[1],
                test_case |-> obj.test_case,
                version |-> VersionOf(tbl, obj),
                updated_by |-> obj.updated_by]
    IN  {r \in tbl : r.pk # row.pk} \cup {row}

InitHistory ==
    /\ MainInit
    /\ arg = None
    /\ ret = None
    /\ proc = <<>>

\* TestCaseHistory(test_case=..., updated_by=...).save()
InsertHistory(test_case, user, held) ==
    /\ Cardinality(historyTbl) < MaxHistory
    /\ LET obj == [pk |-> None, test_case |-> test_case, version |-> held,
                   updated_by |-> user]
       IN  /\ historyTbl' = history_save(historyTbl, obj)
           /\ arg' = Some(obj)
    /\ UNCHANGED <<main, ret, proc, s3>>

\* a row loaded, its updated_by set, and saved again
ResaveHistory(r, user) ==
    /\ r \in historyTbl
    /\ LET obj == [pk |-> Some(r.pk), test_case |-> r.test_case,
                   version |-> Some(r.version), updated_by |-> user]
       IN  /\ historyTbl' = history_save(historyTbl, obj)
           /\ arg' = Some(obj)
    /\ UNCHANGED <<main, ret, proc, s3>>

NextHistory ==
    \/ \E test_case \in HistoryCases, user \in Users, held \in HeldVersions :
           InsertHistory(test_case, user, held)
    \/ \E r \in historyTbl, user \in Users : ResaveHistory(r, user)

SpecHistory == InitHistory /\ [][NextHistory]_vars

VersionsOf(tbl, test_case) == {r.version : r \in {x \in tbl : x.test_case = test_case}}

RowCount(tbl, test_case) == Cardinality({x \in tbl : x.test_case = test_case})

(***************************************************************************)
(* C25: after any sequence of saves of TestCaseHistory objects (no          *)
(* deletion) the versions stored for each test case are exactly 1, ..., n,  *)
(* n the number of its rows; a step that adds a row gives it the highest    *)
(* version of its test case plus one, or 1, and changes no other row's      *)
(* version; a step that saves a persisted row again leaves every version    *)
(* as it was.                                                               *)
(***************************************************************************)
C25_VersionsContiguous ==
    /\ [](\A tc \in HistoryCases :
             /\ VersionsOf(historyTbl, tc) = 1..RowCount(historyTbl, tc)
             /\ \A r1, r2 \in historyTbl :
                   (r1.test_case = r2.test_case /\ r1.version = r2.version) => r1.pk = r2.pk)
    /\ [][/\ \A r \in historyTbl : \E x \in historyTbl' :
                 x.pk = r.pk /\ x.version = r.version /\ x.test_case = r.test_case
          /\ \A x \in historyTbl' :
                 (\A r \in historyTbl : r.pk # x.pk) =>
                     x.version = IF VersionsOf(historyTbl, x.test_case) = {} THEN 1
                                 ELSE 1 + CHOOSE m \in VersionsOf(historyTbl, x.test_case) :
                                             \A v \in VersionsOf(historyTbl, x.test_case) : v <= m
         ]_vars

\* TC-1 has versions 1 and 2, and the row of version 1 was saved again by
\* another user after version 2 existed
C25_ResavedKeepsVersion ==
    /\ VersionsOf(historyTbl, "TC-1") = {1, 2}
    /\ arg # None
    /\ arg[1].pk = Some(1)
    /\ \E r \in historyTbl :
          r.pk = 1 /\ r.version = 1 /\ r.test_case = "TC-1" /\ r.updated_by = "u2"
    /\ \E r \in historyTbl :
          r.pk = 2 /\ r.version = 2 /\ r.test_case = "TC-1" /\ r.updated_by = "u1"

(***************************************************************************)
(* The invocation under the proviso that it is not held up: a request       *)
(* issued is answered or fails, and the interpreter goes on with the next   *)
(* statement.  When ingest_test_rail is called is up to the invoker and     *)
(* under no fairness; the invoker calls it up to LiveRuns times, so that    *)
(* the second call meets the rows the first one left.  That the listing     *)
(* ends is in get_test_cases, where the page that fills MaxPages carries no *)
(* next link.                                                               *)
(***************************************************************************)
LiveRuns == 2

Progress ==
    \/ Send
    \/ \E exc \in {"RequestException", "JSONDecodeError"} : RecvFailure(exc)
    \/ get_project
    \/ get_suite
    \/ get_sections
    \/ \E size \in 0..MaxLastId, nxt \in BOOLEAN : get_test_cases(size, nxt)
    \/ \E c \in CaseInputs : import_test_cases_to_db(c)
    \/ FollowLinks
    \/ \E response \in Payloads : get_case_fields(response)
    \/ populate_none
    \/ populate_customers
    \/ populate_platforms

Invoke == \E ff \in BOOLEAN : runs < LiveRuns /\ ingest_test_rail(ff)

NextLive == Invoke \/ Progress

SpecLive == Init /\ [][NextLive]_vars /\ WF_vars(Progress)

(***************************************************************************)
(* C26: every invocation of ingest_test_rail eventually returns, and no     *)
(* get_cases request is issued after a page that carries no next link: such *)
(* a page is the last one received and its request the last get_cases       *)
(* request of the call.                                                     *)
(***************************************************************************)
C26_EventuallyReturns ==
    /\ (pc # "idle") ~> Ended
    /\ [](\A p \in PageNumbers :
            ~pageLog[p].next => (p = Len(pageLog) /\ Len(CasesRequests) = p))

\* the call has returned after a second page without next link
C26_ReturnedAfterLastPage ==
    /\ Ended
    /\ ~fetch_fields
    /\ Len(pageLog) = 2
    /\ pageLog[1].next
    /\ ~pageLog[2].next
    /\ Len(CasesRequests) = 2

(***************************************************************************)
(* TestCase.save (models.py:128-132) on its own.  The object saved is new,  *)
(* with no identifier, with the empty one or with one its maker chose, or   *)
(* it was loaded from a row and had its test_rail_id set.  A row is known   *)
(* by its test_case_id, which is unique.                                    *)
(***************************************************************************)
SavedRailIds == {1, 2}

NewTestCases ==
    [persisted : {FALSE},
     test_case_id : {None, Some(<<>>), Some(TestCaseId(1))},
     title : {"str", "null"},
     test_rail_id : SavedRailIds]

LoadedTestCases ==
    {[persisted |-> TRUE, test_case_id |-> Some(r.test_case_id), title |-> "str",
      test_rail_id |-> t] : r \in testCaseTbl, t \in SavedRailIds}

\* 'if True' in place of 'if not self.test_case_id' at models.py:129
NeedsId_Always(obj) == TRUE

\* if not self.test_case_id
NeedsId(obj) == obj.test_case_id = None \/ obj.test_case_id = Some(<<>>)

\* TestCase.save: the identifier and the counter after models.py:129-131,
\* then the INSERT or UPDATE of super().save(), which the database may reject
TestCase_save(tbl, counter, obj) ==
    LET test_case_id == IF NeedsId(obj) THEN TestCaseId(get_next_id(counter))
                        ELSE obj.test_case_id[1]
        after == IF NeedsId(obj) THEN get_next_id(counter) ELSE counter
        row == [test_case_id |-> test_case_id, test_rail_id |-> obj.test_rail_id,
                customers |-> {}, platforms |-> {}]
        taken == \E r \in tbl : r.test_case_id = test_case_id
    IN  IF obj.title = "null" \/ (~obj.persisted /\ taken)
        THEN [raised |-> TRUE, counter |-> after, tbl |-> tbl]
        ELSE IF obj.persisted
        THEN [raised |-> FALSE, counter |-> after,
              tbl |-> {IF r.test_case_id = test_case_id
                       THEN [r EXCEPT !.test_rail_id = obj.test_rail_id]
                       ELSE r : r \in tbl}]
        ELSE [raised |-> FALSE, counter |-> after,
              tbl |-> CreateTestCase(tbl, row)]

InitSave ==
    /\ MainInit
    /\ arg = None
    /\ ret = None
    /\ proc = <<>>

SaveTestCase(obj) ==
    /\ NeedsId(obj) => last_id < MaxLastId
    /\ LET after == TestCase_save(testCaseTbl, last_id, obj)
       IN  /\ testCaseTbl' = after.tbl
           /\ last_id' = after.counter
           /\ ret' = Some([raised |-> after.raised])
    /\ arg' = Some(obj)
    /\ UNCHANGED <<pc, fetch_fields, outcome, logged, locals, lookups, requests,
                   outstanding, pageLog, startLastId, runs, proc, storage>>

NextSave ==
    \/ \E obj \in NewTestCases : SaveTestCase(obj)
    \/ \E obj \in LoadedTestCases : SaveTestCase(obj)

SpecSave == InitSave /\ [][NextSave]_vars

IdsIn(tbl) == {r.test_case_id : r \in tbl}

(***************************************************************************)
(* C27: the identifier is assigned once.  A save of a Test Case that has a  *)
(* test_case_id leaves TestCaseCounter.last_id as it is and brings no       *)
(* identifier into the catalog but, for a new object, the one it has; a     *)
(* save of a persisted Test Case leaves the identifiers in the catalog as   *)
(* they are; and last_id changes only in a save of a Test Case without      *)
(* identifier, by one.                                                      *)
(***************************************************************************)
C27_IdentifierAssignedOnce ==
    [][arg' # None =>
          LET obj == arg'[1]
              has_id == obj.test_case_id \notin {None, Some(<<>>)}
          IN  /\ has_id =>
                    /\ last_id' = last_id
                    /\ IdsIn(testCaseTbl') \subseteq
                           IdsIn(testCaseTbl) \cup {obj.test_case_id[1]}
              /\ obj.persisted => IdsIn(testCaseTbl') = IdsIn(testCaseTbl)
              /\ last_id' # last_id => (~has_id /\ last_id' = last_id + 1)
              /\ ~has_id => last_id' = last_id + 1
      ]_vars

\* TC-2 was saved again, with another test_rail_id, after the counter had
\* reached 2: the counter is still 2 and the row is still TC-2
C27_ResavedKeepsIdentifier ==
    /\ arg # None
    /\ arg[1].persisted
    /\ arg[1].test_case_id = Some(TestCaseId(2))
    /\ arg[1].test_rail_id = 2
    /\ ret = Some([raised |-> FALSE])
    /\ last_id = 2
    /\ \E r \in testCaseTbl : r.test_case_id = TestCaseId(2) /\ r.test_rail_id = 2
    /\ \A r \in testCaseTbl : r.test_case_id[2] <= 2

====
